---- MODULE Spec2Model ----
(***************************************************************************)
(* A model of physicsEngine.py: bodies (PhysicsObject and its variants     *)
(* Anchor, Ball, Box) with the attach/detach state machine, the RodSpring  *)
(* constraint and the two-phase step function.                             *)
(*                                                                         *)
(* Numbers.  The program computes on Python floats.  The model computes on *)
(* integers and only takes an arithmetic step whose float result is that   *)
(* same integer: a division must be exact and math.hypot must return a     *)
(* whole number (the guards named Exact...).  On those inputs the float    *)
(* operations of the program do not round, so the integer value is the     *)
(* value the program computes.                                             *)
(***************************************************************************)
EXTENDS Integers, Sequences, FiniteSets, TLC

\* ------------------------------------------------------------------------
\* Bounds of the model
\* ------------------------------------------------------------------------

\* the number of API calls made by the driver in one behaviour
MaxOps == 3

\* ------------------------------------------------------------------------
\* The objects of the world: one Anchor, one Ball, one Box
\* ------------------------------------------------------------------------

Bodies == {1, 2, 3}

\* None, as the value of an Optional[PhysicsObject]
NoBody == 0

\* the class of each body
Kind == <<"Anchor", "Ball", "Box">>

\* float("inf"), the mass Anchor.__init__ passes to the base constructor
Inf == 1000000

\* None, as the value of an Optional[str]
NonePart == "<None>"

\* None, as the value of an Optional[Vector2] or Optional[bool]
NoneVal == <<>>

\* Some value of an Optional[bool]
Some(x) == <<x>>

\* width and height given to the Box constructor
BoxShape == [width |-> 2, height |-> 4]

\* ------------------------------------------------------------------------
\* Basic 2D vector helpers
\* ------------------------------------------------------------------------

v_add(a, b) == <<a[1] + b[1], a[2] + b[2]>>

v_sub(a, b) == <<a[1] - b[1], a[2] - b[2]>>

v_scale(a, s) == <<a[1] * s, a[2] * s>>

\* the largest r with r*r <= n
Isqrt(n) == CHOOSE r \in 0..n : r * r <= n /\ (r + 1) * (r + 1) > n

\* math.hypot on whole numbers; it is exact when ExactLen holds
v_len(a) == Isqrt(a[1] * a[1] + a[2] * a[2])

v_zero == <<0, 0>>

\* math.hypot(a) is a whole number
ExactLen(a) == v_len(a) * v_len(a) = a[1] * a[1] + a[2] * a[2]

\* x / y for floats x, y with y # 0; exact when ExactDiv holds
FDiv(x, y) == IF y = Inf THEN 0 ELSE IF y < 0 THEN (0 - x) \div (0 - y) ELSE x \div y

\* x / y is a whole number
ExactDiv(x, y) == y # 0 /\ (y = Inf \/ x % (IF y < 0 THEN 0 - y ELSE y) = 0)

\* ------------------------------------------------------------------------
\* The heap: the fields of every object, the exception a call has raised
\* (raised), and whether every float operation of the call was exact (exact)
\* ------------------------------------------------------------------------

\* raise: the call stops with the exception e; the fields keep what was
\* assigned before
Raise(h, e) == [h EXCEPT !.raised = e]

\* a float operation whose result is not a whole number
Inexact(h) == [h EXCEPT !.exact = FALSE]

\* the attach points of each class: name -> world position
AttachPoints(h, obj) ==
    LET cx == h.position[obj][1]
        cy == h.position[obj][2]
        hw == FDiv(BoxShape.width, 2)
        hh == FDiv(BoxShape.height, 2)
    IN  CASE Kind[obj] = "Anchor" ->
               [p \in {"anchor", "center"} |-> h.position[obj]]
          [] Kind[obj] = "Ball" ->
               [p \in {"center"} |-> h.position[obj]]
          [] Kind[obj] = "Box" ->
               [p \in {"center", "top_left", "top_right", "bottom_left", "bottom_right"} |->
                   CASE p = "center" -> <<cx, cy>>
                     [] p = "top_left" -> <<cx - hw, cy - hh>>
                     [] p = "top_right" -> <<cx + hw, cy - hh>>
                     [] p = "bottom_left" -> <<cx - hw, cy + hh>>
                     [] p = "bottom_right" -> <<cx + hw, cy + hh>>]

\* get_attach_point that falls back to the position for an unknown name
get_attach_point_default(h, obj, part) ==
    IF part \in DOMAIN AttachPoints(h, obj)
    THEN [ok |-> TRUE, value |-> AttachPoints(h, obj)[part]]
    ELSE [ok |-> TRUE, value |-> h.position[obj]]

\* get_attach_point: ok is FALSE when the method raises ValueError
get_attach_point(h, obj, part) ==
    IF part \in DOMAIN AttachPoints(h, obj)
    THEN [ok |-> TRUE, value |-> AttachPoints(h, obj)[part]]
    ELSE [ok |-> FALSE, value |-> NoneVal]

\* mass <= 0
MassNotPositive(m) == m <= 0

\* apply_force that does not look at the fixed flag
apply_force_ignores_fixed(h, self, force, dt) ==
    IF h.attached_to[self] # NoBody THEN h
    ELSE IF MassNotPositive(h.mass[self]) THEN h
    ELSE IF h.mass[self] = 0 THEN Raise(h, "ZeroDivisionError")
    ELSE IF ~(ExactDiv(force[1], h.mass[self]) /\ ExactDiv(force[2], h.mass[self]))
         THEN Inexact(h)
    ELSE LET ax == FDiv(force[1], h.mass[self])
             ay == FDiv(force[2], h.mass[self])
         IN  [h EXCEPT !.velocity[self] = <<@[1] + ax * dt, @[2] + ay * dt>>]

apply_force(h, self, force, dt) ==
    IF h.fixed[self] \/ h.attached_to[self] # NoBody THEN h
    ELSE IF MassNotPositive(h.mass[self]) THEN h
    ELSE IF h.mass[self] = 0 THEN Raise(h, "ZeroDivisionError")
    ELSE IF ~(ExactDiv(force[1], h.mass[self]) /\ ExactDiv(force[2], h.mass[self]))
         THEN Inexact(h)
    ELSE LET ax == FDiv(force[1], h.mass[self])
             ay == FDiv(force[2], h.mass[self])
         IN  [h EXCEPT !.velocity[self] = <<@[1] + ax * dt, @[2] + ay * dt>>]

\* integrate that moves a free body by its velocity, whatever dt is
integrate_ignores_dt(h, self, dt) ==
    IF h.attached_to[self] # NoBody
    THEN LET target == h.attached_to[self]
             part == IF h.attached_part[self] \in {NonePart, ""}
                     THEN "center" ELSE h.attached_part[self]
             attach_point == get_attach_point(h, target, part)
         IN  IF ~attach_point.ok THEN Raise(h, "UnknownAttachPoint")
             ELSE [h EXCEPT
                     !.position[self] =
                        IF h.attached_offset[self] = NoneVal
                        THEN attach_point.value
                        ELSE v_add(attach_point.value, h.attached_offset[self]),
                     !.velocity[self] = h.velocity[target]]
    ELSE IF h.fixed[self] THEN h
    ELSE [h EXCEPT !.position[self] =
              <<@[1] + h.velocity[self][1], @[2] + h.velocity[self][2]>>]

\* integrate that takes the offset anew from where the body is
integrate_recomputes_offset(h, self, dt) ==
    IF h.attached_to[self] # NoBody
    THEN LET target == h.attached_to[self]
             part == IF h.attached_part[self] \in {NonePart, ""}
                     THEN "center" ELSE h.attached_part[self]
             attach_point == get_attach_point(h, target, part)
         IN  IF ~attach_point.ok THEN Raise(h, "UnknownAttachPoint")
             ELSE [h EXCEPT
                     !.attached_offset[self] = v_sub(h.position[self], attach_point.value),
                     !.velocity[self] = h.velocity[target]]
    ELSE IF h.fixed[self] THEN h
    ELSE [h EXCEPT !.position[self] =
              <<@[1] + h.velocity[self][1] * dt, @[2] + h.velocity[self][2] * dt>>]

integrate(h, self, dt) ==
    IF h.attached_to[self] # NoBody
    THEN LET target == h.attached_to[self]
             part == IF h.attached_part[self] \in {NonePart, ""}
                     THEN "center" ELSE h.attached_part[self]
             attach_point == get_attach_point(h, target, part)
         IN  IF ~attach_point.ok THEN Raise(h, "UnknownAttachPoint")
             ELSE [h EXCEPT
                     !.position[self] =
                        IF h.attached_offset[self] = NoneVal
                        THEN attach_point.value
                        ELSE v_add(attach_point.value, h.attached_offset[self]),
                     !.velocity[self] = h.velocity[target]]
    ELSE IF h.fixed[self] THEN h
    ELSE [h EXCEPT !.position[self] =
              <<@[1] + h.velocity[self][1] * dt, @[2] + h.velocity[self][2] * dt>>]

\* attach_to that saves the fixed flag after forcing it
attach_to_saves_late(h, self, target, target_part) ==
    IF target = NoBody THEN Raise(h, "InvalidTarget")
    ELSE LET attach_point == get_attach_point(h, target, target_part)
         IN  IF ~attach_point.ok THEN Raise(h, "UnknownAttachPoint")
             ELSE [h EXCEPT
                     !.previous_fixed_state[self] = Some(TRUE),
                     !.attached_to[self] = target,
                     !.attached_part[self] = target_part,
                     !.attached_offset[self] = v_sub(h.position[self], attach_point.value),
                     !.fixed[self] = TRUE]

\* attach_to that leaves the fixed flag as it is
attach_to_keeps_fixed(h, self, target, target_part) ==
    IF target = NoBody THEN Raise(h, "InvalidTarget")
    ELSE LET attach_point == get_attach_point(h, target, target_part)
         IN  IF ~attach_point.ok THEN Raise(h, "UnknownAttachPoint")
             ELSE [h EXCEPT
                     !.previous_fixed_state[self] = Some(h.fixed[self]),
                     !.attached_to[self] = target,
                     !.attached_part[self] = target_part,
                     !.attached_offset[self] = v_sub(h.position[self], attach_point.value)]

\* attach_to that keeps the saved fixed flag of a body that is already attached
attach_to_keeps_saved(h, self, target, target_part) ==
    IF target = NoBody THEN Raise(h, "InvalidTarget")
    ELSE LET attach_point == get_attach_point(h, target, target_part)
         IN  IF ~attach_point.ok THEN Raise(h, "UnknownAttachPoint")
             ELSE [h EXCEPT
                     !.previous_fixed_state[self] =
                        IF h.attached_to[self] # NoBody THEN @ ELSE Some(h.fixed[self]),
                     !.attached_to[self] = target,
                     !.attached_part[self] = target_part,
                     !.attached_offset[self] = v_sub(h.position[self], attach_point.value),
                     !.fixed[self] = TRUE]

\* attach_to that does nothing on a body that is already attached
attach_to_first_wins(h, self, target, target_part) ==
    IF target = NoBody THEN Raise(h, "InvalidTarget")
    ELSE LET attach_point == get_attach_point(h, target, target_part)
         IN  IF ~attach_point.ok THEN Raise(h, "UnknownAttachPoint")
             ELSE IF h.attached_to[self] # NoBody THEN h
             ELSE [h EXCEPT
                     !.previous_fixed_state[self] = Some(h.fixed[self]),
                     !.attached_to[self] = target,
                     !.attached_part[self] = target_part,
                     !.attached_offset[self] = v_sub(h.position[self], attach_point.value),
                     !.fixed[self] = TRUE]

\* attach_to that saves and forces the fixed flag before it resolves the
\* attach point
attach_to_mutates_first(h, self, target, target_part) ==
    IF target = NoBody THEN Raise(h, "InvalidTarget")
    ELSE LET attach_point == get_attach_point(h, target, target_part)
             h1 == [h EXCEPT !.previous_fixed_state[self] = Some(h.fixed[self]),
                             !.fixed[self] = TRUE]
         IN  IF ~attach_point.ok THEN Raise(h1, "UnknownAttachPoint")
             ELSE [h1 EXCEPT
                     !.attached_to[self] = target,
                     !.attached_part[self] = target_part,
                     !.attached_offset[self] = v_sub(h.position[self], attach_point.value)]

\* attach_to that refuses a target which is attached to the caller
attach_to_rejects_cycle(h, self, target, target_part) ==
    IF target = NoBody THEN Raise(h, "InvalidTarget")
    ELSE IF h.attached_to[target] = self /\ target # self
         THEN Raise(h, "CyclicAttachment")
    ELSE LET attach_point == get_attach_point(h, target, target_part)
         IN  IF ~attach_point.ok THEN Raise(h, "UnknownAttachPoint")
             ELSE [h EXCEPT
                     !.previous_fixed_state[self] = Some(h.fixed[self]),
                     !.attached_to[self] = target,
                     !.attached_part[self] = target_part,
                     !.attached_offset[self] = v_sub(h.position[self], attach_point.value),
                     !.fixed[self] = TRUE]

\* attach_to; both failures are ValueError in the program, told apart by
\* their message: "target must be a PhysicsObject" (InvalidTarget) and
\* "... has no attach point named ..." (UnknownAttachPoint)
attach_to(h, self, target, target_part) ==
    IF target = NoBody THEN Raise(h, "InvalidTarget")
    ELSE LET attach_point == get_attach_point(h, target, target_part)
         IN  IF ~attach_point.ok THEN Raise(h, "UnknownAttachPoint")
             ELSE [h EXCEPT
                     !.previous_fixed_state[self] = Some(h.fixed[self]),
                     !.attached_to[self] = target,
                     !.attached_part[self] = target_part,
                     !.attached_offset[self] = v_sub(h.position[self], attach_point.value),
                     !.fixed[self] = TRUE]

\* detach that leaves the velocity as it is
detach_keeps_velocity(h, self) ==
    IF h.attached_to[self] = NoBody THEN h
    ELSE [h EXCEPT
            !.attached_to[self] = NoBody,
            !.attached_part[self] = NonePart,
            !.attached_offset[self] = NoneVal,
            !.fixed[self] = IF h.previous_fixed_state[self] # NoneVal
                            THEN h.previous_fixed_state[self][1]
                            ELSE FALSE,
            !.previous_fixed_state[self] = NoneVal]

\* detach that restores the fixed flag also when the body is not attached
detach_always_restores(h, self) ==
    IF h.attached_to[self] = NoBody
    THEN [h EXCEPT
            !.fixed[self] = IF h.previous_fixed_state[self] # NoneVal
                            THEN h.previous_fixed_state[self][1]
                            ELSE FALSE,
            !.previous_fixed_state[self] = NoneVal]
    ELSE LET old_target == h.attached_to[self]
         IN  [h EXCEPT
                !.velocity[self] = h.velocity[old_target],
                !.attached_to[self] = NoBody,
                !.attached_part[self] = NonePart,
                !.attached_offset[self] = NoneVal,
                !.fixed[self] = IF h.previous_fixed_state[self] # NoneVal
                                THEN h.previous_fixed_state[self][1]
                                ELSE FALSE,
                !.previous_fixed_state[self] = NoneVal]

\* detach that keeps the saved fixed flag
detach_keeps_saved(h, self) ==
    IF h.attached_to[self] = NoBody THEN h
    ELSE LET old_target == h.attached_to[self]
         IN  [h EXCEPT
                !.velocity[self] = h.velocity[old_target],
                !.attached_to[self] = NoBody,
                !.attached_part[self] = NonePart,
                !.attached_offset[self] = NoneVal,
                !.fixed[self] = IF h.previous_fixed_state[self] # NoneVal
                                THEN h.previous_fixed_state[self][1]
                                ELSE FALSE]

detach(h, self) ==
    IF h.attached_to[self] = NoBody THEN h
    ELSE LET old_target == h.attached_to[self]
         IN  [h EXCEPT
                !.velocity[self] = h.velocity[old_target],
                !.attached_to[self] = NoBody,
                !.attached_part[self] = NonePart,
                !.attached_offset[self] = NoneVal,
                !.fixed[self] = IF h.previous_fixed_state[self] # NoneVal
                                THEN h.previous_fixed_state[self][1]
                                ELSE FALSE,
                !.previous_fixed_state[self] = NoneVal]

\* ------------------------------------------------------------------------
\* RodSpring
\* ------------------------------------------------------------------------

\* the constructor with __post_init__: rest_length None becomes the distance
\* of the two bodies at construction
RodSpring(h, a, b, rest_length, stiffness, damping) ==
    [a |-> a, b |-> b,
     rest_length |-> IF rest_length = NoneVal
                     THEN v_len(v_sub(h.position[b], h.position[a]))
                     ELSE rest_length[1],
     stiffness |-> stiffness, damping |-> damping]

\* the call stopped: it raised, or it left the exact numbers
Stopped(h) == h.raised # "ok" \/ ~h.exact

\* spring_force without the early return on dist == 0
spring_force_no_zero_check(h, c) ==
    LET delta == v_sub(h.position[c.b], h.position[c.a])
        dist == v_len(delta)
    IN  IF ~ExactLen(delta) THEN [ret |-> "inexact", force |-> v_zero]
        ELSE IF dist = 0 THEN [ret |-> "ZeroDivisionError", force |-> v_zero]
        ELSE IF ~(ExactDiv(delta[1], dist) /\ ExactDiv(delta[2], dist))
             THEN [ret |-> "inexact", force |-> v_zero]
        ELSE LET dir_vec == <<FDiv(delta[1], dist), FDiv(delta[2], dist)>>
                 stretch == dist - c.rest_length
                 force_mag == (0 - c.stiffness) * stretch
                 rel_vel == v_sub(h.velocity[c.b], h.velocity[c.a])
                 damping_force == (0 - c.damping) *
                     (rel_vel[1] * dir_vec[1] + rel_vel[2] * dir_vec[2])
                 total_force == force_mag + damping_force
             IN  [ret |-> "ok", force |-> v_scale(dir_vec, total_force)]

\* spring_force that takes the whole distance as the stretch
spring_force_ignores_rest(h, c) ==
    LET delta == v_sub(h.position[c.b], h.position[c.a])
        dist == v_len(delta)
    IN  IF ~ExactLen(delta) THEN [ret |-> "inexact", force |-> v_zero]
        ELSE IF dist = 0 THEN [ret |-> "return", force |-> v_zero]
        ELSE IF ~(ExactDiv(delta[1], dist) /\ ExactDiv(delta[2], dist))
             THEN [ret |-> "inexact", force |-> v_zero]
        ELSE LET dir_vec == <<FDiv(delta[1], dist), FDiv(delta[2], dist)>>
                 stretch == dist
                 force_mag == (0 - c.stiffness) * stretch
                 rel_vel == v_sub(h.velocity[c.b], h.velocity[c.a])
                 damping_force == (0 - c.damping) *
                     (rel_vel[1] * dir_vec[1] + rel_vel[2] * dir_vec[2])
                 total_force == force_mag + damping_force
             IN  [ret |-> "ok", force |-> v_scale(dir_vec, total_force)]

\* spring_force with the sign of Hooke's law lost
spring_force_wrong_sign(h, c) ==
    LET delta == v_sub(h.position[c.b], h.position[c.a])
        dist == v_len(delta)
    IN  IF ~ExactLen(delta) THEN [ret |-> "inexact", force |-> v_zero]
        ELSE IF dist = 0 THEN [ret |-> "return", force |-> v_zero]
        ELSE IF ~(ExactDiv(delta[1], dist) /\ ExactDiv(delta[2], dist))
             THEN [ret |-> "inexact", force |-> v_zero]
        ELSE LET dir_vec == <<FDiv(delta[1], dist), FDiv(delta[2], dist)>>
                 stretch == dist - c.rest_length
                 force_mag == c.stiffness * stretch
                 rel_vel == v_sub(h.velocity[c.b], h.velocity[c.a])
                 damping_force == (0 - c.damping) *
                     (rel_vel[1] * dir_vec[1] + rel_vel[2] * dir_vec[2])
                 total_force == force_mag + damping_force
             IN  [ret |-> "ok", force |-> v_scale(dir_vec, total_force)]

\* the force RodSpring.apply computes for b (a gets its negation):
\* ret is "return" for the early return, "ok" with the force, or the
\* exception raised; "inexact" when the floats would round
spring_force(h, c) ==
    LET delta == v_sub(h.position[c.b], h.position[c.a])
        dist == v_len(delta)
    IN  IF ~ExactLen(delta) THEN [ret |-> "inexact", force |-> v_zero]
        ELSE IF dist = 0 THEN [ret |-> "return", force |-> v_zero]
        ELSE IF dist = 0 THEN [ret |-> "ZeroDivisionError", force |-> v_zero]
        ELSE IF ~(ExactDiv(delta[1], dist) /\ ExactDiv(delta[2], dist))
             THEN [ret |-> "inexact", force |-> v_zero]
        ELSE LET dir_vec == <<FDiv(delta[1], dist), FDiv(delta[2], dist)>>
                 stretch == dist - c.rest_length
                 force_mag == (0 - c.stiffness) * stretch
                 rel_vel == v_sub(h.velocity[c.b], h.velocity[c.a])
                 damping_force == (0 - c.damping) *
                     (rel_vel[1] * dir_vec[1] + rel_vel[2] * dir_vec[2])
                 total_force == force_mag + damping_force
             IN  [ret |-> "ok", force |-> v_scale(dir_vec, total_force)]

\* the forces RodSpring.apply passes to a.apply_force and b.apply_force
forces_passed(h, c) ==
    LET force == spring_force(h, c).force
    IN  [a |-> v_scale(force, -1), b |-> force]

apply(h, c, dt) ==
    LET f == spring_force(h, c)
    IN  CASE f.ret = "return" -> h
          [] f.ret = "inexact" -> Inexact(h)
          [] f.ret = "ZeroDivisionError" -> Raise(h, "ZeroDivisionError")
          [] f.ret = "ok" ->
               LET h1 == apply_force(h, c.a, forces_passed(h, c).a, dt)
               IN  IF Stopped(h1) THEN h1
                   ELSE apply_force(h1, c.b, forces_passed(h, c).b, dt)

\* ------------------------------------------------------------------------
\* step
\* ------------------------------------------------------------------------

\* for c in constraints: c.apply(dt), from the i-th on
RECURSIVE apply_constraints(_, _, _, _)
apply_constraints(h, cs, i, dt) ==
    IF i > Len(cs) \/ Stopped(h) THEN h
    ELSE apply_constraints(apply(h, cs[i], dt), cs, i + 1, dt)

\* for obj in objects: obj.integrate(dt), from the i-th on
RECURSIVE integrate_objects(_, _, _, _)
integrate_objects(h, objects, i, dt) ==
    IF i > Len(objects) \/ Stopped(h) THEN h
    ELSE integrate_objects(integrate(h, objects[i], dt), objects, i + 1, dt)

\* step that integrates the bodies before it applies the constraints
step_integrates_first(h, objects, cs, dt) ==
    apply_constraints(integrate_objects(h, objects, 1, dt), cs, 1, dt)

step(h, objects, cs, dt) ==
    integrate_objects(apply_constraints(h, cs, 1, dt), objects, 1, dt)

\* ------------------------------------------------------------------------
\* State
\* ------------------------------------------------------------------------

VARIABLES
    position,               \* PhysicsObject.position of each body
    velocity,               \* PhysicsObject.velocity
    mass,                   \* PhysicsObject.mass
    fixed,                  \* PhysicsObject.fixed
    attached_to,            \* PhysicsObject._attached_to (NoBody: None)
    attached_part,          \* PhysicsObject._attached_part (NonePart: None)
    attached_offset,        \* PhysicsObject._attached_offset (NoneVal: None)
    previous_fixed_state,   \* PhysicsObject._previous_fixed_state (NoneVal: None)
    constraints,            \* the list of RodSpring the driver passes to step
    raised,                 \* the exception the last call raised, or "ok"
    last,                   \* the last call and its arguments
    hist,                   \* per body, what the driver saw at its last attach/detach
    nops                    \* the number of calls made

vars == <<position, velocity, mass, fixed, attached_to, attached_part, attached_offset,
          previous_fixed_state, constraints, raised, last, hist, nops>>

\* the fields of all objects, at the start of a call
Heap ==
    [position |-> position, velocity |-> velocity, mass |-> mass, fixed |-> fixed,
     attached_to |-> attached_to, attached_part |-> attached_part,
     attached_offset |-> attached_offset,
     previous_fixed_state |-> previous_fixed_state,
     raised |-> "ok", exact |-> TRUE]

\* the fields after a call, and the exception it raised
Commit(h) ==
    /\ h.exact
    /\ position' = h.position
    /\ velocity' = h.velocity
    /\ fixed' = h.fixed
    /\ attached_to' = h.attached_to
    /\ attached_part' = h.attached_part
    /\ attached_offset' = h.attached_offset
    /\ previous_fixed_state' = h.previous_fixed_state
    /\ raised' = h.raised
    /\ UNCHANGED <<mass, constraints>>

Call(op, self, target, part, vec, dt) ==
    [op |-> op, self |-> self, target |-> target, part |-> part, vec |-> vec, dt |-> dt]

\* the driver of Spec still has a call to make
CanCall == nops < MaxOps

Did(c) ==
    /\ nops' = nops + 1
    /\ last' = c

\* ------------------------------------------------------------------------
\* Inputs of the driver
\* ------------------------------------------------------------------------

\* attach point names a caller passes: every name of the three tables, and
\* one that no class has
Parts == {"anchor", "center", "top_left", "top_right", "bottom_left", "bottom_right", "nose"}

\* the (target, part) pairs the driver of Spec passes to attachTo
AttachArgs ==
    {<<NoBody, "center">>, <<1, "anchor">>, <<2, "center">>, <<3, "top_left">>,
     <<2, "anchor">>}

DTs == {1, 2}

Forces == {<<2, -4>>}

Velocities == {<<1, -1>>}

\* the orders in which the driver lists the bodies for step
Orders == {o \in [1..3 -> Bodies] : \A i, j \in 1..3 : i # j => o[i] # o[j]}

\* ------------------------------------------------------------------------
\* Init: the world after construction
\* ------------------------------------------------------------------------

NoHist == [free_fixed |-> NoneVal, offset0 |-> NoneVal, attaches |-> 0, left |-> NoBody]

\* the spring lists the driver may build from the constructed bodies
SpringLists(h) ==
    { <<RodSpring(h, 1, 2, Some(1), 2, 0)>>,
      <<RodSpring(h, 1, 2, Some(3), 2, 0), RodSpring(h, 2, 3, NoneVal, 2, 2)>> }

Init ==
    /\ position = <<v_zero, <<2, 0>>, <<4, 0>>>>
    /\ velocity = <<v_zero, <<-1, 0>>, <<1, 0>>>>
    /\ mass \in {<<Inf, 2, m3>> : m3 \in {-1, 0, 1}}
    /\ fixed \in {<<TRUE, f2, FALSE>> : f2 \in BOOLEAN}
    /\ attached_to = [b \in Bodies |-> NoBody]
    /\ attached_part = [b \in Bodies |-> NonePart]
    /\ attached_offset = [b \in Bodies |-> NoneVal]
    /\ previous_fixed_state = [b \in Bodies |-> NoneVal]
    /\ raised = "ok"
    /\ constraints \in SpringLists(Heap)
    /\ last = Call("init", NoBody, NoBody, NonePart, v_zero, 0)
    /\ hist = [b \in Bodies |-> NoHist]
    /\ nops = 0

\* ------------------------------------------------------------------------
\* Actions: one per call of the driver
\* ------------------------------------------------------------------------

\* self.attachTo(target, part)
AttachTo(self, target, part) ==
    LET h == attach_to(Heap, self, target, part)
    IN  /\ Commit(h)
        /\ Did(Call("attachTo", self, target, part, v_zero, 0))
        /\ hist' = IF h.raised # "ok" THEN hist
                   ELSE [hist EXCEPT ![self] =
                           [free_fixed |-> IF attached_to[self] = NoBody
                                           THEN Some(fixed[self]) ELSE @.free_fixed,
                            offset0 |-> h.attached_offset[self],
                            attaches |-> IF attached_to[self] = NoBody THEN 1 ELSE @.attaches + 1,
                            left |-> NoBody]]

\* self.detach()
Detach(self) ==
    /\ Commit(detach(Heap, self))
    /\ Did(Call("detach", self, NoBody, NonePart, v_zero, 0))
    /\ hist' = IF attached_to[self] = NoBody THEN hist
               ELSE [hist EXCEPT ![self] = [@ EXCEPT !.left = attached_to[self]]]

\* self.apply_force(force, dt)
ApplyForce(self, force, dt) ==
    /\ Commit(apply_force(Heap, self, force, dt))
    /\ Did(Call("applyForce", self, NoBody, NonePart, force, dt))
    /\ UNCHANGED hist

\* self.integrate(dt)
Integrate(self, dt) ==
    /\ Commit(integrate(Heap, self, dt))
    /\ Did(Call("integrate", self, NoBody, NonePart, v_zero, dt))
    /\ UNCHANGED hist

\* constraints[i].apply(dt)
SpringApply(i, dt) ==
    /\ Commit(apply(Heap, constraints[i], dt))
    /\ Did(Call("apply", i, NoBody, NonePart, v_zero, dt))
    /\ UNCHANGED hist

\* step(objects, constraints, dt)
Step(objects, dt) ==
    /\ Commit(step(Heap, objects, constraints, dt))
    /\ Did(Call("step", NoBody, NoBody, NonePart, v_zero, dt))
    /\ UNCHANGED hist

\* self.velocity = v, the direct assignment of the example driver
SetVelocity(self, v) ==
    /\ Commit([Heap EXCEPT !.velocity[self] = v])
    /\ Did(Call("setVelocity", self, NoBody, NonePart, v, 0))
    /\ UNCHANGED hist

Next ==
    /\ CanCall
    /\ \/ \E self \in Bodies, arg \in AttachArgs : AttachTo(self, arg[1], arg[2])
       \/ \E self \in Bodies : Detach(self)
       \/ \E self \in Bodies, force \in Forces, dt \in DTs : ApplyForce(self, force, dt)
       \/ \E self \in Bodies, dt \in DTs : Integrate(self, dt)
       \/ \E i \in 1..Len(constraints), dt \in DTs : SpringApply(i, dt)
       \/ \E objects \in Orders, dt \in DTs : Step(objects, dt)
       \/ \E self \in Bodies, v \in Velocities : SetVelocity(self, v)

Spec == Init /\ [][Next]_vars

\* A driver that attaches with every (target, part) pair

\* the number of calls of that driver
MaxAttachOps == 2

NextAttach ==
    /\ nops < MaxAttachOps
    /\ \/ \E self \in Bodies, target \in Bodies \cup {NoBody}, part \in Parts :
             AttachTo(self, target, part)
       \/ \E objects \in {<<1, 2, 3>>}, dt \in {1} : Step(objects, dt)

SpecAttach == Init /\ [][NextAttach]_vars

\* A world at rest: the Ball and the Box joined by one spring without
\* damping, at its rest length, nothing moving; the driver only steps

\* where the Ball is constructed in that world
RestBallPositions == {<<2, 0>>, <<1, 0>>, <<4, 3>>, <<4, -2>>, <<4, 0>>}

\* the stiffness given to the spring in that world
RestStiffness == {-2, 0, 2, 4}

InitRest ==
    /\ position \in {<<v_zero, p2, <<4, 0>>>> : p2 \in RestBallPositions}
    /\ velocity = <<v_zero, v_zero, v_zero>>
    /\ mass \in {<<Inf, m2, 1>> : m2 \in {1, 2}}
    /\ fixed = <<TRUE, FALSE, FALSE>>
    /\ attached_to = [b \in Bodies |-> NoBody]
    /\ attached_part = [b \in Bodies |-> NonePart]
    /\ attached_offset = [b \in Bodies |-> NoneVal]
    /\ previous_fixed_state = [b \in Bodies |-> NoneVal]
    /\ raised = "ok"
    /\ constraints \in {<<RodSpring(Heap, 2, 3, NoneVal, k, 0)>> : k \in RestStiffness}
    /\ last = Call("init", NoBody, NoBody, NonePart, v_zero, 0)
    /\ hist = [b \in Bodies |-> NoHist]
    /\ nops = 0

NextRest == CanCall /\ \E objects \in Orders, dt \in DTs : Step(objects, dt)

SpecRest == InitRest /\ [][NextRest]_vars

\* A driver that builds cycles: it attaches bodies to one another at
\* "center", integrates single bodies and steps

\* the number of calls of that driver
MaxCycleOps == 5

InitCycle == Init /\ mass[3] = 1 /\ ~fixed[2] /\ Len(constraints) = 2

NextCycle ==
    /\ nops < MaxCycleOps
    /\ \/ \E self \in Bodies, target \in Bodies :
             target # self /\ AttachTo(self, target, "center")
       \/ \E self \in Bodies : Integrate(self, 1)
       \/ \E objects \in {<<1, 2, 3>>, <<3, 2, 1>>} : Step(objects, 1)

SpecCycle == InitCycle /\ [][NextCycle]_vars

\* ------------------------------------------------------------------------
\* Properties
\* ------------------------------------------------------------------------

\* the world position of the attach point a body is attached to
TargetPoint(b) == get_attach_point(Heap, attached_to[b], attached_part[b]).value

IsAttached(b) == attached_to[b] # NoBody

\* C1: attachment rigidity. At the end of every step, for every attached
\* body, position - target.getAttachPoint(part) equals the offset computed at
\* attach time, whatever the order of the bodies in the step.
C1_AttachmentRigidity ==
    (last.op = "step" /\ raised = "ok") =>
        \A b \in Bodies :
            IsAttached(b) => v_sub(position[b], TargetPoint(b)) = hist[b].offset0

\* C2: detach restores the prior fixed state. A body attached once from Free
\* with fixed = f is, after detach, Free with fixed = f.
C2_DetachRestoresFixed ==
    \A b \in Bodies :
        (last.op = "detach" /\ last.self = b /\ hist[b].left # NoBody /\ hist[b].attaches = 1)
            => (~IsAttached(b) /\ fixed[b] = hist[b].free_fixed[1])

\* a body with fixed = FALSE was attached, stepped and detached
C2_Witness ==
    /\ last.op = "detach" /\ last.self = 2 /\ nops = 3
    /\ hist[2].left = 3 /\ hist[2].attaches = 1 /\ hist[2].free_fixed = Some(FALSE)
    /\ position[2] # <<2, 0>>
    /\ ~fixed[2]

\* C3: every attached body has fixed = TRUE.
C3_AttachedIsFixed == \A b \in Bodies : IsAttached(b) => fixed[b]

\* a body that was not fixed when Free is attached, after a step
C3_Witness ==
    \E b \in Bodies :
        IsAttached(b) /\ hist[b].free_fixed = Some(FALSE) /\ last.op = "step"

\* C4: velocity mirroring. At the end of every step an attached body's
\* velocity equals its target's velocity, also when the target is itself
\* attached to a third body.
C4_VelocityMirroring ==
    (last.op \in {"step", "integrate"} /\ raised = "ok") =>
        \A b \in Bodies :
            (IsAttached(b) /\ (last.op = "integrate" => last.self = b))
                => velocity[b] = velocity[attached_to[b]]


\* the bodies some constraint is tied to
Constrained == {constraints[i].a : i \in 1..Len(constraints)} \cup
               {constraints[i].b : i \in 1..Len(constraints)}

\* C5: detach velocity continuity. Right after detach() on an attached body
\* its velocity is the target's velocity at the call, and a later change of
\* the former target (an assignment to its velocity, a force on it, its
\* integration, a step) does not change the detached body's velocity.
C5_DetachVelocityContinuity ==
    [][ /\ (last'.op = "detach" /\ IsAttached(last'.self))
            => velocity'[last'.self] = velocity[attached_to[last'.self]]
        /\ \A b \in Bodies :
             (/\ hist[b].left # NoBody /\ hist[b].left # b
              /\ hist'[b] = hist[b]
              /\ \/ /\ last'.op \in {"setVelocity", "applyForce", "integrate"}
                    /\ last'.self = hist[b].left
                 \/ last'.op = "step" /\ b \notin Constrained)
                => velocity'[b] = velocity[b]
      ]_vars

\* a detached body kept a velocity that its former target no longer has,
\* after an assignment to the target's velocity
C5_Witness ==
    \E b \in Bodies :
        /\ hist[b].left # NoBody /\ hist[b].left # b /\ ~IsAttached(b)
        /\ last.op = "setVelocity" /\ last.self = hist[b].left
        /\ velocity[b] # velocity[hist[b].left]
        /\ velocity[b] # <<-1, 0>> /\ velocity[b] # <<1, 0>>

\* the fields of the bodies other than the velocity
OtherFields ==
    <<position, mass, fixed, attached_to, attached_part, attached_offset,
      previous_fixed_state>>

\* C6: force neutrality. applyForce changes nothing when the body is
\* attached, fixed or of mass <= 0; otherwise it adds (force / mass) * dt to
\* the velocity of that body and changes nothing else.
C6_ForceNeutrality ==
    [][ last'.op = "applyForce" =>
          LET b == last'.self
              f == last'.vec
              dt == last'.dt
          IN  /\ OtherFields' = OtherFields
              /\ raised' = "ok"
              /\ IF IsAttached(b) \/ fixed[b] \/ mass[b] <= 0
                 THEN velocity' = velocity
                 ELSE velocity' = [velocity EXCEPT ![b] =
                          <<@[1] + FDiv(f[1], mass[b]) * dt, @[2] + FDiv(f[2], mass[b]) * dt>>]
      ]_vars

\* a force was applied to a free, not fixed body of positive mass that had
\* been attached and detached before
C6_Witness ==
    /\ last.op = "applyForce" /\ last.dt = 2
    /\ ~IsAttached(last.self) /\ ~fixed[last.self] /\ mass[last.self] > 0
    /\ hist[last.self].left # NoBody

\* the attach points the three variants define
C7_Table(kind) ==
    CASE kind = "Anchor" -> {"anchor", "center"}
      [] kind = "Ball" -> {"center"}
      [] kind = "Box" -> {"center", "top_left", "top_right", "bottom_left", "bottom_right"}

\* the world position of a named point of a body
C7_Point(t, part) ==
    CASE part \in {"anchor", "center"} -> position[t]
      [] part = "top_left" -> <<position[t][1] - 1, position[t][2] - 2>>
      [] part = "top_right" -> <<position[t][1] + 1, position[t][2] - 2>>
      [] part = "bottom_left" -> <<position[t][1] - 1, position[t][2] + 2>>
      [] part = "bottom_right" -> <<position[t][1] + 1, position[t][2] + 2>>

\* C7: attachTo fails with InvalidTarget when the target is absent, with
\* UnknownAttachPoint exactly when the part is not in the target variant's
\* table, and otherwise succeeds, attached to that named point (the offset is
\* taken from that point, not from another one).
C7_AttachErrors ==
    last.op = "attachTo" =>
        LET b == last.self
            t == last.target
            part == last.part
        IN  /\ (t = NoBody) <=> (raised = "InvalidTarget")
            /\ (t # NoBody /\ part \notin C7_Table(Kind[t])) <=> (raised = "UnknownAttachPoint")
            /\ (t # NoBody /\ part \in C7_Table(Kind[t])) =>
                  /\ raised = "ok"
                  /\ attached_to[b] = t /\ attached_part[b] = part
                  /\ attached_offset[b] = v_sub(position[b], C7_Point(t, part))

\* the Ball attached to a corner of the Box after a step has moved the Box
C7_Witness ==
    /\ last.op = "attachTo" /\ last.target = 3 /\ last.part = "bottom_right"
    /\ raised = "ok" /\ attached_to[2] = 3 /\ last.self = 2
    /\ position[3] # <<4, 0>>

\* C8: step never raises.
C8_StepNeverRaises == last.op = "step" => raised = "ok"

\* a step ran with a spring between two coincident bodies, a body of mass 0
\* on a stretched spring and an attached body
C8_Witness ==
    /\ last.op = "step" /\ raised = "ok"
    /\ Len(constraints) = 2 /\ mass[3] = 0
    /\ position[1] = position[2] /\ attached_to[2] = 1
    /\ spring_force(Heap, constraints[2]).ret = "ok"
    /\ spring_force(Heap, constraints[2]).force # v_zero

\* C9: Euler integration. A step with timestep dt moves a free, not fixed
\* body that no constraint is tied to by velocity * dt and keeps its
\* velocity; it leaves a free fixed body where it is, with its velocity.
C9_EulerIntegration ==
    [][ last'.op = "step" =>
          \A b \in Bodies :
              ~IsAttached(b) =>
                  IF fixed[b]
                  THEN position'[b] = position[b] /\ velocity'[b] = velocity[b]
                  ELSE b \notin Constrained =>
                         /\ position'[b] = v_add(position[b], v_scale(velocity[b], last'.dt))
                         /\ velocity'[b] = velocity[b]
      ]_vars

\* a step with dt = 2 moved the free Box, which no spring is tied to
C9_Witness ==
    /\ last.op = "step" /\ last.dt = 2 /\ nops = 1
    /\ 3 \notin Constrained /\ ~IsAttached(3) /\ ~fixed[3]
    /\ position[3] = <<6, 0>>

Dot(a, b) == a[1] * b[1] + a[2] * b[2]

\* C10: spring restoring direction. With stiffness > 0, damping 0 and a
\* non-zero separation the forces passed to a and b are negatives of each
\* other; a stretched spring pulls b toward a, a compressed one pushes b
\* away from a.
C10_SpringDirection ==
    \A i \in 1..Len(constraints) :
        LET c == constraints[i]
            delta == v_sub(position[c.b], position[c.a])
            sep == v_len(delta)
            f == forces_passed(Heap, c)
        IN  (c.stiffness > 0 /\ c.damping = 0 /\ spring_force(Heap, c).ret = "ok") =>
                /\ f.a = <<0 - f.b[1], 0 - f.b[2]>>
                /\ sep > c.rest_length => (Dot(f.b, delta) < 0 /\ Dot(f.a, delta) > 0)
                /\ sep < c.rest_length => (Dot(f.b, delta) > 0 /\ Dot(f.a, delta) < 0)

\* RodSpring.apply ran on a stretched spring without damping
C10_Witness ==
    /\ last.op = "apply"
    /\ constraints[last.self].damping = 0
    /\ spring_force(Heap, constraints[last.self]).ret = "ok"
    /\ v_len(v_sub(position[constraints[last.self].b], position[constraints[last.self].a]))
          > constraints[last.self].rest_length


\* C11: spring equilibrium. Two bodies joined by one spring without damping,
\* started at the rest length with zero velocities, keep their positions,
\* zero velocities and the separation equal to the rest length in every step.
C11_SpringEquilibrium ==
    [][ /\ position' = position
        /\ velocity' = [b \in Bodies |-> v_zero]
        /\ LET c == constraints'[1]
           IN  v_len(v_sub(position'[c.b], position'[c.a])) = c.rest_length
      ]_vars

\* three steps were made on a spring of stiffness 4 and rest length 3
C11_Witness ==
    /\ last.op = "step" /\ nops = 3
    /\ constraints[1].stiffness = 4 /\ constraints[1].rest_length = 3
    /\ constraints[1].damping = 0


\* C12: integration order does not affect the result of a step. Whatever
\* order the driver lists the bodies in, a step ends with the positions and
\* velocities that any other order of the same bodies would have given.
C12_OrderIndependence ==
    [][ last'.op = "step" =>
          \A o \in Orders :
              LET r == step(Heap, o, constraints, last'.dt)
              IN  (r.exact /\ r.raised = "ok") =>
                      (r.position = position' /\ r.velocity = velocity')
      ]_vars


\* C13: re-attach quirk. attachTo on a body that is already attached saves
\* the forced value TRUE, whatever fixed was before the first attachTo, so
\* the detach that follows leaves the body Free with fixed = TRUE.
C13_ReattachQuirk ==
    \A b \in Bodies :
        /\ (IsAttached(b) /\ hist[b].attaches >= 2) => previous_fixed_state[b] = Some(TRUE)
        /\ (last.op = "detach" /\ last.self = b /\ hist[b].left # NoBody
               /\ hist[b].attaches >= 2)
             => (~IsAttached(b) /\ fixed[b])

\* a body that was not fixed when Free was attached twice and then detached
C13_Witness ==
    \E b \in Bodies :
        /\ last.op = "detach" /\ last.self = b /\ hist[b].left # NoBody
        /\ hist[b].attaches = 2 /\ hist[b].free_fixed = Some(FALSE)
        /\ ~IsAttached(b) /\ fixed[b]

\* the fields of body b
Fields(b) ==
    <<position[b], velocity[b], mass[b], fixed[b], attached_to[b], attached_part[b],
      attached_offset[b], previous_fixed_state[b]>>

\* C14: re-attach is last-write-wins. A successful attachTo(C, q) on a body
\* A that is already attached makes A's attachment C, q and A.position -
\* C.getAttachPoint(q), keeps A's position and velocity and every field of
\* the other bodies (an attachTo from Free changes no other body either);
\* an integrate of A then puts A at its current target's point plus that
\* offset, with the current target's velocity.
C14_ReattachLastWins ==
    [][ /\ (last'.op = "attachTo" /\ raised' = "ok") =>
              LET a == last'.self
                  c == last'.target
                  q == last'.part
              IN  /\ \A o \in Bodies \ {a} : Fields(o)' = Fields(o)
                  /\ IsAttached(a) =>
                        /\ attached_to'[a] = c /\ attached_part'[a] = q
                        /\ attached_offset'[a] = v_sub(position[a], C7_Point(c, q))
                        /\ position'[a] = position[a] /\ velocity'[a] = velocity[a]
        /\ (last'.op = "integrate" /\ IsAttached(last'.self)) =>
              LET a == last'.self
                  c == attached_to[a]
              IN  /\ position'[a] = v_add(C7_Point(c, attached_part[a]), attached_offset[a])
                  /\ velocity'[a] = velocity[c]
      ]_vars

\* the Ball, first attached to the Anchor and then to the Box, was
\* integrated and is at the Box's corner plus its offset
C14_Witness ==
    /\ last.op = "integrate" /\ last.self = 2 /\ nops = 3
    /\ hist[2].attaches = 2 /\ attached_to[2] = 3 /\ attached_part[2] = "top_left"
    /\ position[2] = <<2, 0>> /\ velocity[2] = <<1, 0>>

\* C15: a failed attachTo changes nothing: every field of every body,
\* the caller's attachment included, is as before the call.
C15_FailedAttachNoChange ==
    [][ (last'.op = "attachTo" /\ raised' # "ok") =>
            \A b \in Bodies : Fields(b)' = Fields(b)
      ]_vars

\* an attached body called attachTo with a name its target does not have,
\* and is attached as before
C15_Witness ==
    \E b \in Bodies :
        /\ last.op = "attachTo" /\ last.self = b /\ raised = "UnknownAttachPoint"
        /\ hist[b].attaches = 1 /\ IsAttached(b)
        /\ attached_to[b] # last.target
        /\ attached_offset[b] = hist[b].offset0


\* the velocities after the constraint phase of a step, every constraint
\* applied in list order to what the earlier ones left, on the positions the
\* step started with
C16_AfterConstraints(dt) ==
    IF Len(constraints) = 1
    THEN apply(Heap, constraints[1], dt)
    ELSE LET h1 == apply(Heap, constraints[1], dt)
         IN  apply([h1 EXCEPT !.position = position], constraints[2], dt)

\* C16: two-phase step. All constraints are applied, in list order, before
\* any body is integrated: the constraint phase moves no body, each
\* constraint takes its force from the start-of-step positions and from the
\* velocities the earlier constraints left, and a free body then moves by
\* the velocity the constraint phase gave it.
C16_TwoPhaseStep ==
    [][ last'.op = "step" =>
          LET dt == last'.dt
              hc == C16_AfterConstraints(dt)
          IN  /\ hc.position = position
              /\ \A b \in Bodies :
                    (~IsAttached(b) /\ ~fixed[b]) =>
                        /\ velocity'[b] = hc.velocity[b]
                        /\ position'[b] = v_add(position[b], v_scale(hc.velocity[b], dt))
      ]_vars

\* the first step of the world with two springs: the damped second spring
\* saw the Ball's velocity as the first spring left it
C16_Witness ==
    /\ last.op = "step" /\ last.dt = 1 /\ nops = 1
    /\ Len(constraints) = 2 /\ constraints[2].damping > 0
    /\ mass[3] = 1 /\ ~fixed[2]
    /\ velocity[2] = <<1, 0>> /\ velocity[3] = <<-1, 0>>
    /\ position[2] = <<3, 0>> /\ position[3] = <<3, 0>>

\* the attachment record of body b, with its fixed flag
Attachment(b) ==
    <<attached_to[b], attached_part[b], attached_offset[b], fixed[b],
      previous_fixed_state[b]>>

\* C17: only attachTo and detach change the attachment record. applyForce,
\* integrate, RodSpring.apply and step leave every body's target, part
\* name, offset, fixed flag and saved fixed flag as they are.
C17_AttachmentRecordFrame ==
    [][ last'.op \in {"applyForce", "integrate", "apply", "step"} =>
            \A b \in Bodies : Attachment(b)' = Attachment(b)
      ]_vars

\* an attached body has followed its moving target in a step and still has
\* the offset taken at attach time
C17_Witness ==
    \E b \in Bodies :
        /\ last.op = "step" /\ IsAttached(b) /\ attached_to[b] = 3
        /\ position[3] # <<4, 0>>
        /\ attached_offset[b] = hist[b].offset0
        /\ v_sub(position[b], TargetPoint(b)) = hist[b].offset0

\* C18: detach on a body that is not attached changes nothing, so a second
\* detach in a row changes nothing after the first.
C18_DetachFreeNoOp ==
    [][ /\ (last'.op = "detach" /\ ~IsAttached(last'.self)) =>
              \A b \in Bodies : Fields(b)' = Fields(b)
        /\ (last'.op = "detach" /\ last.op = "detach" /\ last'.self = last.self) =>
              \A b \in Bodies : Fields(b)' = Fields(b)
      ]_vars

\* a fixed body that was never attached has called detach twice and is
\* still fixed
C18_Witness ==
    /\ last.op = "detach" /\ nops = 2
    /\ hist[last.self].attaches = 0 /\ hist[last.self].left = NoBody
    /\ fixed[last.self] /\ Kind[last.self] = "Ball"
    /\ hist[1].attaches = 0 /\ hist[3].attaches = 0
    /\ position = <<v_zero, <<2, 0>>, <<4, 0>>>>
    /\ velocity = <<v_zero, <<-1, 0>>, <<1, 0>>>>


\* a and b are attached to each other at "center"
Mutual(a, b) ==
    /\ a # b
    /\ attached_to[a] = b /\ attached_part[a] = "center"
    /\ attached_to[b] = a /\ attached_part[b] = "center"

\* b comes after a in the list objects
Later(objects, a, b) ==
    \E i, j \in 1..Len(objects) : i < j /\ objects[i] = a /\ objects[j] = b

\* C19: cyclic attachment is accepted and can diverge. attachTo at "center"
\* succeeds also when the target is attached to the caller; with a and b
\* attached to each other every step ends without error and moves the body
\* integrated later by offset(a) + offset(b), whatever the order and dt; the
\* pair stays where it is when the two offsets sum to zero.
C19_CyclicAttachment ==
    /\ (last.op = "attachTo" /\ last.part = "center" /\ last.target # NoBody) =>
          (raised = "ok" /\ attached_to[last.self] = last.target)
    /\ last.op = "step" => raised = "ok"
    /\ \A a, b \in Bodies :
          Mutual(a, b) =>
              LET sum == v_add(attached_offset[a], attached_offset[b])
              IN  \A o \in Orders, dt \in DTs :
                      LET r == step(Heap, o, constraints, dt)
                      IN  /\ r.raised = "ok" /\ r.exact
                          /\ Later(o, a, b) =>
                                /\ r.position[b] = v_add(position[b], sum)
                                /\ r.position[a] = v_add(position[b], attached_offset[a])
                          /\ (sum = v_zero) =>
                                (r.position[a] = position[a] /\ r.position[b] = position[b])

\* two steps in a row have moved a pair attached to each other, whose
\* offsets do not sum to zero
C19_Witness ==
    \E a, b \in Bodies :
        /\ Mutual(a, b)
        /\ v_add(attached_offset[a], attached_offset[b]) # v_zero
        /\ last.op = "step" /\ nops = 5
        /\ hist[a].attaches = 1 /\ hist[b].attaches = 1
        /\ v_sub(position[a], position[b]) = attached_offset[a]

\* a pair attached to each other with offsets that sum to zero, after a step
C19_Frozen ==
    \E a, b \in Bodies :
        /\ Mutual(a, b)
        /\ v_add(attached_offset[a], attached_offset[b]) = v_zero
        /\ last.op = "step"

\* C20: the attachment fields are all set or all None. A body has a target
\* iff it has a non-empty part name, iff it has an offset, iff its fixed
\* flag is saved; so integrate never takes the "center" default or the
\* missing-offset branch, and detach never takes its fixed = False default.
C20_AllOrNone ==
    \A b \in Bodies :
        /\ IsAttached(b) <=> attached_part[b] \notin {NonePart, ""}
        /\ IsAttached(b) <=> attached_offset[b] # NoneVal
        /\ IsAttached(b) <=> previous_fixed_state[b] # NoneVal

\* a body was attached twice and detached, and has none of the four fields
C20_Witness ==
    \E b \in Bodies :
        /\ last.op = "detach" /\ last.self = b /\ hist[b].left # NoBody
        /\ hist[b].attaches = 2
        /\ ~IsAttached(b) /\ previous_fixed_state[b] = NoneVal

====
